---- MODULE Spec2Model ----
(***************************************************************************)
(* Model of the streaming client of the meeting assistant front end:       *)
(* queryAgentStream (components/api.ts) consuming a server-sent-event      *)
(* response body through fetch / ReadableStream / TextDecoder.             *)
(*                                                                         *)
(* JavaScript values are represented as follows.                           *)
(*   - an optional value (a field that may be missing, null or undefined)  *)
(*     is a sequence of length 0 (missing) or 1 (the value);               *)
(*   - an id or a message is a TLA+ string, "" being the empty string;     *)
(*   - a text that the code concatenates is a sequence of letters, <<>>    *)
(*     being the empty string;                                             *)
(*   - a byte of the body is a record: [b |-> c] a unit of ASCII bytes, and *)
(*     [lead |-> j], [cont |-> j] the two bytes of the JSON text j, which  *)
(*     is abstracted to a single two-byte unit (so that a buffer boundary  *)
(*     can fall inside the JSON text, as inside a multi-byte character);   *)
(*   - a decoded character is [c |-> x] or [json |-> j].                   *)
(***************************************************************************)
EXTENDS Integers, Sequences, FiniteSets, Bags, TLC

\* ------------------------------------------------------------------ bounds

\* Longest record sequence the server sends in one response body.
MaxRecords == 3

\* ------------------------------------------------------- JavaScript values

None == <<>>
Some(x) == <<x>>

\* JavaScript falsiness of an optional string (an id or a message) and of an
\* optional text: missing, null, undefined and the empty string are falsy.
Falsy(o) == o = None \/ o = Some("")
FalsyText(o) == o = None \/ o = Some(<<>>)

\* ------------------------------------------------------------ wire format

Chr(x) == [c |-> x]
NL == Chr("\n")
Replacement == Chr("U+FFFD")

\* 'data: ', in two units: the field name with its colon, and the space.
DataPrefix == <<Chr("data:"), Chr(" ")>>

\* '\n\n'
Separator == <<NL, NL>>

\* JSON texts the server can put after the data marker.
Chunk(t) == [type |-> "chunk", content |-> t]
Session(s) == [type |-> "session", session_id |-> s]
Done(r, s) == [type |-> "done", response |-> r, session_id |-> s]
Error(e) == [type |-> "error", error |-> e]
UnknownType == [type |-> "ping"]
JsonNull == [null |-> TRUE]
InvalidJson == [invalid |-> TRUE]

\* A record of the stream: a data line carrying a JSON text, or a line
\* without the data marker (an SSE comment).
DataRecord(j) == [data |-> TRUE, json |-> j]
CommentRecord == [data |-> FALSE]

\* The characters of one record, without its terminating blank line.
Line(r) == IF r.data THEN DataPrefix \o <<[json |-> r.json]>> ELSE <<Chr(":")>>

\* UTF-8 encoding of a character sequence.
RECURSIVE Utf8(_)
Utf8(s) ==
    IF s = <<>> THEN <<>>
    ELSE LET h == Head(s)
         IN (IF "json" \in DOMAIN h
             THEN <<[lead |-> h.json], [cont |-> h.json]>>
             ELSE <<[b |-> h.c]>>) \o Utf8(Tail(s))

\* The body of a response: every record followed by a blank line, then the
\* characters of a last record the server never terminated.
RECURSIVE StreamText(_)
StreamText(rs) ==
    IF rs = <<>> THEN <<>> ELSE Line(Head(rs)) \o Separator \o StreamText(Tail(rs))

Body(rs, partial) == Utf8(StreamText(rs) \o partial)

\* ------------------------------------------------- TextDecoder (api.ts:83,98)

\* decoder.decode(value, { stream: true }): the decoder keeps the lead byte of
\* an incomplete sequence (held: an optional byte) for the next call.  The
\* result is [text, held].  A malformed sequence decodes to U+FFFD.
RECURSIVE DecodeFrom(_, _, _)
DecodeFrom(bytes, held, out) ==
    IF bytes = <<>> THEN [text |-> out, held |-> held]
    ELSE LET x == Head(bytes)
             rest == Tail(bytes)
         IN IF held # None
            THEN IF "cont" \in DOMAIN x /\ x.cont = held[1].lead
                 THEN DecodeFrom(rest, None, Append(out, [json |-> x.cont]))
                 ELSE DecodeFrom(bytes, None, Append(out, Replacement))
            ELSE IF "lead" \in DOMAIN x THEN DecodeFrom(rest, Some(x), out)
            ELSE IF "cont" \in DOMAIN x THEN DecodeFrom(rest, None, Append(out, Replacement))
            ELSE DecodeFrom(rest, None, Append(out, Chr(x.b)))

\* decoder.decode(value) without the stream option: an incomplete sequence at
\* the end of the buffer is flushed as U+FFFD and nothing is kept.
DecodeNoStream(bytes, held) ==
    LET d == DecodeFrom(bytes, None, <<>>)
    IN [text |-> IF d.held = None THEN d.text ELSE Append(d.text, Replacement),
        held |-> None]

Decode(bytes, held) == DecodeFrom(bytes, held, <<>>)

\* ------------------------------------------------ String methods (api.ts:99-105)

\* line.startsWith(prefix)
StartsWith(line, prefix) ==
    Len(line) >= Len(prefix) /\ SubSeq(line, 1, Len(prefix)) = prefix

\* line.slice(n)
Slice(line, n) == SubSeq(line, n + 1, Len(line))

\* buffer.split('\n\n'): the pieces between successive, non-overlapping
\* occurrences of the separator found from the left; always at least one piece.
RECURSIVE Split(_)
Split(s) ==
    LET hits == {i \in 1..(Len(s) - 1) : s[i] = NL /\ s[i + 1] = NL}
    IN IF hits = {} THEN <<s>>
       ELSE LET i == CHOOSE k \in hits : \A m \in hits : k <= m
            IN <<SubSeq(s, 1, i - 1)>> \o Split(SubSeq(s, i + 2, Len(s)))

\* lines.pop() || '' with the last piece of the split: what is carried over to
\* the next read.
CarryNothing(parts) == <<>>

CarryOver(parts) == parts[Len(parts)]

\* The pieces left in lines after lines.pop().
Popped(parts) == SubSeq(parts, 1, Len(parts) - 1)

\* JSON.parse(text): [ok, value]; ok is FALSE when it throws a SyntaxError.
\* White space around the JSON text is ignored; the text is valid when what
\* is left is exactly one JSON text other than the invalid one.
WhiteSpace == {NL, Chr(" ")}

JSONParse(text) ==
    LET t == SelectSeq(text, LAMBDA x : x \notin WhiteSpace)
    IN IF Len(t) = 1 /\ "json" \in DOMAIN t[1] /\ t[1].json # InvalidJson
       THEN [ok |-> TRUE, value |-> t[1].json]
       ELSE [ok |-> FALSE]

\* --------------------------------------------------------------- callbacks

\* One entry of the log of callback invocations.
OnChunk(chunk) == [cb |-> "onChunk", chunk |-> chunk]
OnComplete(fullResponse, newSessionId) ==
    [cb |-> "onComplete", fullResponse |-> fullResponse, newSessionId |-> newSessionId]
OnError(error) == [cb |-> "onError", error |-> error]

\* ------------------------------------------- the for loop (api.ts:102-123)

\* data.response || fullResponse
FullResponseOnly(data, fullResponse) == fullResponse

CompleteText(data, fullResponse) ==
    IF FalsyText(data.response) THEN fullResponse ELSE data.response[1]

\* data.session_id || currentSessionId || ''
CompleteSessionId(data, currentSessionId) ==
    IF ~Falsy(data.session_id) THEN data.session_id[1]
    ELSE IF ~Falsy(currentSessionId) THEN currentSessionId[1]
    ELSE ""

\* data.error || 'Unknown error'
AlwaysUnknownError(data) == "Unknown error"

ErrorMessage(data) == IF Falsy(data.error) THEN "Unknown error" ELSE data.error[1]

\* catch (e) { console.error(...) } around the parse and the if chain: the
\* line is given up and the loop goes on.
AbortOnParseFailure(l) ==
    [l EXCEPT !.calls = Append(@, OnError("Error parsing SSE data")), !.exit = "error"]

OnParseFailure(l) == l

\* The if chain with chunks that are delivered in batches: a chunk that follows
\* a chunk is added to the previous onChunk call.
BatchChunks(data, l) ==
    IF data = JsonNull THEN OnParseFailure(l)
    ELSE IF data.type = "session"
        THEN [l EXCEPT !.currentSessionId = data.session_id]
    ELSE IF data.type = "chunk"
        THEN [l EXCEPT !.fullResponse = @ \o data.content,
                       !.calls = IF @ # <<>> /\ @[Len(@)].cb = "onChunk"
                                 THEN [@ EXCEPT ![Len(@)].chunk = @ \o data.content]
                                 ELSE Append(@, OnChunk(data.content))]
    ELSE IF data.type = "done"
        THEN [l EXCEPT !.calls = Append(@, OnComplete(CompleteText(data, l.fullResponse),
                                           CompleteSessionId(data, l.currentSessionId))),
                       !.exit = "done"]
    ELSE IF data.type = "error"
        THEN [l EXCEPT !.calls = Append(@, OnError(ErrorMessage(data))),
                       !.exit = "error"]
    ELSE l

\* A session record that is taken for the end of the answer.
SessionCompletes(data, l) ==
    IF data # JsonNull /\ data.type = "session"
    THEN [l EXCEPT !.currentSessionId = data.session_id,
                   !.fullResponse = <<>>,
                   !.calls = Append(@, OnComplete(l.fullResponse, ""))]
    ELSE l

\* The branches of the if chain on data.type, applied to the locals l of the
\* call while the loop runs:
\*   fullResponse, currentSessionId   the variables of the code
\*   calls                            the callbacks invoked so far
\*   processed                        the lines the for loop has taken
\*   exit                             "none", or the record type whose branch
\*                                    returned from the function
\* Reading data.type of null throws a TypeError, caught by the try around the
\* parse like a SyntaxError.
Dispatch(data, l) ==
    IF data = JsonNull THEN OnParseFailure(l)
    ELSE IF data.type = "session"
        THEN [l EXCEPT !.currentSessionId = data.session_id]
    ELSE IF data.type = "chunk"
        THEN [l EXCEPT !.fullResponse = @ \o data.content,
                       !.calls = Append(@, OnChunk(data.content))]
    ELSE IF data.type = "done"
        THEN [l EXCEPT !.calls = Append(@, OnComplete(CompleteText(data, l.fullResponse),
                                           CompleteSessionId(data, l.currentSessionId))),
                       !.exit = "done"]
    ELSE IF data.type = "error"
        THEN [l EXCEPT !.calls = Append(@, OnError(ErrorMessage(data))),
                       !.exit = "error"]
    ELSE l

\* The body of the for loop for one line.
ProcessLine(line, l) ==
    LET taken == [l EXCEPT !.processed = Append(@, line)]
    IN IF StartsWith(line, DataPrefix)
       THEN LET parsed == JSONParse(Slice(line, Len(DataPrefix)))
            IN IF parsed.ok THEN Dispatch(parsed.value, taken) ELSE OnParseFailure(taken)
       ELSE taken

\* The return statements of the done and error branches leave the function:
\* no further line is taken and no further read is issued.
NeverReturns(l) == FALSE

Returns(l) == l.exit # "none"

\* A for loop that goes on with the lines of the buffer after a done or error
\* record.
RECURSIVE ProcessAllLines(_, _)
ProcessAllLines(lines, l) ==
    IF lines = <<>> THEN l
    ELSE ProcessAllLines(Tail(lines), ProcessLine(Head(lines), l))

\* The for loop over the lines of the buffer.
RECURSIVE ProcessLines(_, _)
ProcessLines(lines, l) ==
    IF lines = <<>> \/ Returns(l) THEN l
    ELSE ProcessLines(Tail(lines), ProcessLine(Head(lines), l))

\* ------------------------------------------------ the catch (api.ts:125-127)

\* What a promise rejects with: an Error carrying a message, or another value.
Reasons == {[isError |-> TRUE, message |-> "Failed to fetch"], [isError |-> FALSE]}

\* error instanceof Error ? error.message : 'Network error'
CatchMessage(reason) == IF reason.isError THEN reason.message ELSE "Network error"

\* The effect of an exception thrown inside the try block: the callbacks it
\* causes and the way the promise of the call settles.
Uncaught(reason) == [calls |-> <<>>, outcome |-> "rejected"]

Caught(reason) == [calls |-> <<OnError(CatchMessage(reason))>>, outcome |-> "fulfilled"]

\* ------------------------------------------ the error response (api.ts:76-80)

\* response.json(): the body decoded and parsed as one JSON text; the promise
\* rejects when there is no body or the body is not JSON.
ResponseJson(body) ==
    IF body = None THEN [ok |-> FALSE]
    ELSE JSONParse(DecodeNoStream(body[1], None).text)

\* The documents an error response can carry.
ErrorDocs ==
    {[detail |-> Some("Session not found")], [detail |-> Some("")], [detail |-> None], JsonNull}

\* `HTTP error! status: ${response.status}`
HttpStatusMessage(status) ==
    IF status = 404 THEN "HTTP error! status: 404" ELSE "HTTP error! status: 500"

\* response.json().catch(() => ({ detail: 'Unknown error' }))
ErrorDocument(response) ==
    LET parsed == ResponseJson(response.body)
    IN IF parsed.ok THEN parsed.value ELSE [detail |-> Some("Unknown error")]

\* onError(error.detail || `HTTP error! status: ${response.status}`); reading
\* error.detail of null throws a TypeError inside the try block.
StatusMessageOnly(response) ==
    [calls |-> <<OnError(HttpStatusMessage(response.status))>>, outcome |-> "fulfilled"]

NotOk(response) ==
    LET error == ErrorDocument(response)
    IN IF error = JsonNull
       THEN Caught([isError |-> TRUE,
                    message |-> "Cannot read properties of null (reading 'detail')"])
       ELSE [calls |-> <<OnError(IF "detail" \in DOMAIN error /\ ~Falsy(error.detail)
                                 THEN error.detail[1]
                                 ELSE HttpStatusMessage(response.status))>>,
             outcome |-> "fulfilled"]

\* -------------------------------------------------------------- the inputs

ChunkA == DataRecord(Chunk(<<"A">>))
ChunkB == DataRecord(Chunk(<<"B">>))
DoneBare == DataRecord(Done(None, None))

\* The record sequences are drawn from one family at a time, each with the
\* session ids the caller may pass and the unterminated last records the body
\* may end with.
Families ==
    { \* the text of the answer
      [records |-> {ChunkA, ChunkB, DoneBare,
                    DataRecord(Done(Some(<<>>), None)),
                    DataRecord(Done(Some(<<"R">>), None))},
       sessionIds |-> {None},
       partials |-> {<<>>}],
      \* failures reported by the server
      [records |-> {ChunkA, DoneBare,
                    DataRecord(Error(Some("boom"))),
                    DataRecord(Error(Some(""))),
                    DataRecord(Error(None))},
       sessionIds |-> {None},
       partials |-> {<<>>}],
      \* session ids
      [records |-> {DataRecord(Session(Some("S1"))), DataRecord(Session(None)),
                    DoneBare, DataRecord(Done(None, Some("S2")))},
       sessionIds |-> {None, Some("S0")},
       partials |-> {<<>>}],
      \* a session id within the text of the answer
      [records |-> {ChunkA, DataRecord(Session(Some("S1"))), DoneBare},
       sessionIds |-> {None},
       partials |-> {<<>>}],
      \* records that are not events
      [records |-> {ChunkA, CommentRecord,
                    DataRecord(InvalidJson), DataRecord(UnknownType), DataRecord(JsonNull)},
       sessionIds |-> {None},
       partials |-> {<<>>}],
      \* bodies that end inside a record
      [records |-> {ChunkA, DoneBare},
       sessionIds |-> {None},
       partials |-> {Line(DataRecord(Done(Some(<<"R">>), None))),
                     Line(ChunkB) \o <<NL>>,
                     Line(DataRecord(Error(Some("boom"))))}] }

SeqsUpTo(S, n) == UNION {[1..k -> S] : k \in 0..n}

\* ------------------------------------------------------------------- state

VARIABLES
    sessionId,          \* the argument of the call: an optional id
    response,           \* what fetch resolves with: [ok, status, body]
    records,            \* the records the server wrote to the body
    partial,            \* the characters written after the last blank line
    pc,                 \* "fetch", "read" or "returned"
    wire,               \* the bytes of the body not read yet
    held,               \* the byte kept by the TextDecoder
    buffer,             \* the variables of the code
    fullResponse,
    currentSessionId,
    calls,              \* the callbacks invoked, in order
    processed,          \* the lines taken by the for loop, in order
    exit,               \* how the call ended, "none" while it runs
    outcome             \* the promise: "pending", "fulfilled" or "rejected"

streamVars == <<sessionId, response, records, partial, pc, wire, held, buffer,
                fullResponse, currentSessionId, calls, processed, exit, outcome>>

inputs == <<sessionId, response, records, partial>>

\* The state of the ChatInterface component (ChatInterface.tsx) and of the
\* page it lives in.  A conversation id and a session id are strings; a title,
\* a question and the content of a message are sequences of characters.
VARIABLES
    navType,                \* navEntry?.type of the load of the page, once a
                            \*   pagehide handler has run
    pageAlive,              \* FALSE once the component no longer runs: the
                            \*   page is unloaded or the component unmounted
    isLoading,              \* the useState values of the component
    chatSessionId,          \*   sessionId: an optional id
    currentConversationId,  \*   an optional id
    conversationTitle,
    messages,               \*   a sequence of [role, content]
    listener,               \* the session id captured by the registered
                            \*   pagehide handler: None when none is registered
    submits,                \* the handleSubmit invocations accepted so far
    loads,                  \* the handleConversationSelect invocations so far
    requests,               \* the HTTP requests issued by the page: a bag
    hides,                  \* the last pagehide event the page has received,
                            \*   with the session id of the handler that ran
    thread                  \* the number of conversation changes so far

chatVars == <<navType, pageAlive, isLoading, chatSessionId, currentConversationId,
              conversationTitle, messages, listener, submits, loads, requests,
              hides, thread>>

vars == <<streamVars, chatVars>>

\* useState('New Chat')
NewChat == <<"N", "e", "w", " ", "C", "h", "a", "t">>

\* The component as mounted: the initial values of its useState hooks; no
\* pagehide handler is registered while sessionId is null.
Mounted ==
    /\ pageAlive = TRUE
    /\ isLoading = FALSE
    /\ chatSessionId = None
    /\ currentConversationId = None
    /\ conversationTitle = NewChat
    /\ messages = <<>>
    /\ listener = None
    /\ submits = <<>>
    /\ loads = <<>>
    /\ requests = EmptyBag
    /\ hides = <<>>
    /\ thread = 0

Init ==
    /\ \E f \in Families :
          /\ sessionId \in f.sessionIds
          /\ records \in SeqsUpTo(f.records, MaxRecords)
          /\ partial \in f.partials
    /\ \/ response \in {[ok |-> o, status |-> IF o THEN 200 ELSE 500,
                          body |-> Some(Body(records, partial))] : o \in BOOLEAN}
       \/ /\ records = <<>> /\ partial = <<>> /\ sessionId = None
          /\ \/ response = [ok |-> TRUE, status |-> 200, body |-> None]
             \/ response \in {[ok |-> FALSE, status |-> st,
                                body |-> Some(Utf8(<<[json |-> d]>>))] :
                               st \in {404, 500}, d \in ErrorDocs}
    /\ pc = "fetch"
    /\ wire = <<>>
    /\ held = None
    /\ buffer = <<>>
    /\ fullResponse = <<>>
    /\ currentSessionId = None
    /\ calls = <<>>
    /\ processed = <<>>
    /\ exit = "none"
    /\ outcome = "pending"
    /\ navType = None
    /\ Mounted

\* The call is over: its locals (the reader with what is left of the body,
\* the decoder, buffer, fullResponse and currentSessionId) no longer exist.
LocalsDropped ==
    /\ wire' = <<>>
    /\ held' = None
    /\ buffer' = <<>>
    /\ fullResponse' = <<>>
    /\ currentSessionId' = None

\* The call ends: the promise settles.
Finish(how, effect) ==
    /\ pc' = "returned"
    /\ exit' = how
    /\ calls' = calls \o effect.calls
    /\ outcome' = effect.outcome
    /\ LocalsDropped

\* await fetch(...) rejects.
FetchRejects ==
    /\ pc = "fetch"
    /\ \E reason \in Reasons : Finish("caught", Caught(reason))
    /\ UNCHANGED <<chatVars, inputs, processed>>

\* fetch resolves with a response whose status is not a success.
HttpError ==
    /\ pc = "fetch"
    /\ ~response.ok
    /\ Finish("http", NotOk(response))
    /\ UNCHANGED <<chatVars, inputs, processed>>

\* fetch resolves with a successful response that has no body.
NoBody ==
    /\ pc = "fetch"
    /\ response.ok
    /\ response.body = None
    /\ Finish("nobody", [calls |-> <<OnError("No response body")>>, outcome |-> "fulfilled"])
    /\ UNCHANGED <<chatVars, inputs, processed>>

\* fetch resolves with a successful response: the reader, the decoder and the
\* locals are set up and the first read is awaited.
Open ==
    /\ pc = "fetch"
    /\ response.ok
    /\ response.body # None
    /\ pc' = "read"
    /\ wire' = response.body[1]
    /\ held' = None
    /\ buffer' = <<>>
    /\ fullResponse' = <<>>
    /\ currentSessionId' = sessionId
    /\ UNCHANGED <<chatVars, inputs, calls, processed, exit, outcome>>

\* reader.read() resolves with the next n bytes of the body: one turn of the
\* while loop.
Read(n) ==
    /\ pc = "read"
    /\ n \in 1..Len(wire)
    /\ LET value == SubSeq(wire, 1, n)
           decoded == Decode(value, held)
           parts == Split(buffer \o decoded.text)
           l == ProcessLines(Popped(parts),
                             [fullResponse |-> fullResponse,
                              currentSessionId |-> currentSessionId,
                              calls |-> calls,
                              processed |-> processed,
                              exit |-> "none"])
       IN /\ calls' = l.calls
          /\ processed' = l.processed
          /\ exit' = l.exit
          /\ IF Returns(l)
             THEN /\ pc' = "returned"
                  /\ outcome' = "fulfilled"
                  /\ LocalsDropped
             ELSE /\ pc' = "read"
                  /\ outcome' = "pending"
                  /\ wire' = SubSeq(wire, n + 1, Len(wire))
                  /\ held' = decoded.held
                  /\ buffer' = CarryOver(parts)
                  /\ fullResponse' = l.fullResponse
                  /\ currentSessionId' = l.currentSessionId
    /\ UNCHANGED <<chatVars, inputs>>

\* What the loop does when the reader reports the end of the body: break.
FlushBuffer(l) == ProcessLine(buffer, l)

AtEndOfBody(l) == l

\* reader.read() resolves with done: the loop is left and the call returns.
ReadDone ==
    /\ pc = "read"
    /\ wire = <<>>
    /\ LET l == AtEndOfBody([fullResponse |-> fullResponse,
                             currentSessionId |-> currentSessionId,
                             calls |-> calls,
                             processed |-> processed,
                             exit |-> "none"])
       IN /\ calls' = l.calls
          /\ processed' = l.processed
    /\ pc' = "returned"
    /\ exit' = "eof"
    /\ outcome' = "fulfilled"
    /\ LocalsDropped
    /\ UNCHANGED <<chatVars, inputs>>

\* reader.read() rejects: the connection failed.
ReadRejects ==
    /\ pc = "read"
    /\ \E reason \in Reasons : Finish("caught", Caught(reason))
    /\ UNCHANGED <<chatVars, inputs, processed>>

Next ==
    \/ FetchRejects
    \/ HttpError
    \/ NoBody
    \/ Open
    \/ \E n \in 1..Len(wire) : Read(n)
    \/ ReadDone
    \/ ReadRejects

Spec == Init /\ [][Next]_vars

\* ======================================================== ChatInterface.tsx

\* ------------------------------------------------------------------ bounds

\* What happens in the life of a page: the handleSubmit invocations that are
\* accepted, and these together with the conversation changes (select or new
\* chat) and the chunks the streams deliver.
MaxSubmits == 2
MaxActions == 3

\* ------------------------------------------------------------------ strings

\* input.trim().length > 50, substring(0, 50)
TitleBudget == 50

\* s.trim(): s without its leading and trailing white space.
RECURSIVE TrimStart(_)
TrimStart(s) == IF s # <<>> /\ Head(s) = " " THEN TrimStart(Tail(s)) ELSE s

RECURSIVE TrimEnd(_)
TrimEnd(s) ==
    IF s # <<>> /\ s[Len(s)] = " " THEN TrimEnd(SubSeq(s, 1, Len(s) - 1)) ELSE s

Trim(s) == TrimEnd(TrimStart(s))

\* s.substring(0, n)
Substring(s, n) == SubSeq(s, 1, IF n < Len(s) THEN n ELSE Len(s))

\* input.trim().length > 50 ? input.trim().substring(0, 50) + '...' : input.trim()
TruncatedTitle(input) ==
    IF Len(Trim(input)) > TitleBudget
    THEN Substring(Trim(input), TitleBudget) \o <<".", ".", ".">>
    ELSE Trim(input)

\* What the user can have typed when submitting: white space only, and a
\* question of 51 characters with white space around it.
Questions ==
    { <<" ">>,
      <<" ">> \o [i \in 1..(TitleBudget + 1) |-> "x"] \o <<" ">> }

\* -------------------------------------------------------------- the backend

\* The id the backend gives to the n-th conversation it creates, and the
\* conversations that exist already and can be selected in the sidebar.
CreatedId(n) == IF n = 1 THEN "c1" ELSE IF n = 2 THEN "c2" ELSE "c3"
Persisted == {"p1"}

\* What GET /conversations/{id} and GET /conversations/{id}/messages return
\* for a persisted conversation: a title (possibly empty) and its messages.
PersistedTitles == {<<>>, <<"T">>}
PersistedMessages ==
    <<[role |-> "user", content |-> <<"q">>], [role |-> "assistant", content |-> <<"a">>]>>

\* The session id the backend assigns in the stream of the n-th accepted
\* submit.
AssignedSession(n) == IF n = 1 THEN "S1" ELSE IF n = 2 THEN "S2" ELSE "S3"

\* The requests of the page: what is asked, the handleSubmit invocation,
\* handleConversationSelect invocation or pagehide event that asks, and the
\* conversation id, session id and text the request carries.
Request(kind, by, conv, session, text) ==
    [kind |-> kind, by |-> by, conv |-> conv, session |-> session, text |-> text]

\* createConversation(title): POST /conversations
CreateRequest(by, title) == Request("create", by, None, None, title)

\* updateConversationTitle(id, title): PUT /conversations/{id}
TitleRequest(by, conv, title) == Request("title", by, Some(conv), None, title)

\* queryAgentStream: POST /agent/query/stream with session_id: sessionId ||
\* undefined and conversation_id: conversationId || undefined
StreamRequest(by, question, session, conv) ==
    Request("stream", by, IF Falsy(conv) THEN None ELSE conv,
            IF Falsy(session) THEN None ELSE session, question)

\* getConversation(id) with getConversationMessages(id)
LoadRequest(by, conv) == Request("load", by, Some(conv), None, <<>>)

\* DELETE /agent/session/{sessionId}, keepalive
DeleteRequest(by, session) == Request("delete", by, None, Some(session), <<>>)

\* The bag of requests once the page has issued the requests rs.
Issue(rs) == requests (+) SetToBag(rs)

\* ------------------------------------------------------------ the component

\* PerformanceNavigationTiming.type of the load of the current page.
NavigationTypes == {"navigate", "reload", "back_forward"}

\* In the runs of the component a call of queryAgentStream is seen through its
\* callbacks; the variables of the single call above stay as before a call.
NoCall ==
    /\ sessionId = None
    /\ records = <<>>
    /\ partial = <<>>
    /\ response = [ok |-> TRUE, status |-> 200, body |-> None]
    /\ pc = "fetch"
    /\ wire = <<>>
    /\ held = None
    /\ buffer = <<>>
    /\ fullResponse = <<>>
    /\ currentSessionId = None
    /\ calls = <<>>
    /\ processed = <<>>
    /\ exit = "none"
    /\ outcome = "pending"

\* The page has been loaded and the component is mounted.
ChatInit ==
    /\ NoCall
    /\ navType = None
    /\ Mounted

\* An effect without its cleanup: the handler registered for a session id
\* stays when the session id is reset.
KeepHandler(s) ==
    /\ chatSessionId' = s
    /\ listener' = IF Falsy(s) THEN listener ELSE s

\* setSessionId(s) and the effect that depends on [sessionId]: the handler of
\* the previous session id is removed, and a handler is registered that has
\* captured s, unless s is falsy.
SetSessionId(s) ==
    /\ chatSessionId' = s
    /\ listener' = IF Falsy(s) THEN None ELSE s

\* ---- pagehide

\* A pagehide event: whether the page is kept in the back/forward cache, and
\* what the user did. A reloaded or closed page is never kept.
PageHideEvents ==
    {[persisted |-> FALSE, cause |-> "reload"],
     [persisted |-> FALSE, cause |-> "close"],
     [persisted |-> FALSE, cause |-> "navigate"],
     [persisted |-> TRUE, cause |-> "navigate"]}

\* A handler that deletes the session whenever the page is not kept.
DeleteUnlessPersisted(session, e, type) ==
    IF e.persisted = FALSE THEN {DeleteRequest(0, session)} ELSE {}

\* handlePageHide(e) of the handler that has captured session, on a page whose
\* navigation entry has the given type: the requests it issues.
HandlePageHide(session, e, type) ==
    IF e.persisted = FALSE
    THEN LET isReload == type = "reload"
         IN IF ~isReload THEN {DeleteRequest(0, session)} ELSE {}
    ELSE {}

\* The component no longer runs: its page is gone or frozen in the
\* back/forward cache (its restoration is not modelled), or it is unmounted.
\* Of what it displayed and of its invocations nothing is kept, and of its
\* requests only those that go on, the ones sent with keepalive.
Unloaded(kept) ==
    /\ pageAlive' = FALSE
    /\ isLoading' = FALSE
    /\ currentConversationId' = None
    /\ conversationTitle' = NewChat
    /\ messages' = <<>>
    /\ submits' = <<>>
    /\ loads' = <<>>
    /\ thread' = 0
    /\ requests' = SetToBag(kept)

\* The browser fires pagehide on a page that was loaded in the given way: the
\* registered handler, if any, runs; it writes nothing of the component, whose
\* session id and handler are as they were when the page stops. The type of
\* the navigation entry is recorded when a handler runs; without one the type
\* is of no consequence.
PageHide(e, type) ==
    /\ pageAlive
    /\ listener # None \/ type = "navigate"
    /\ navType' = IF listener # None THEN Some(type) ELSE None
    /\ hides' = <<[event |-> e, session |-> listener]>>
    /\ Unloaded(IF listener = None THEN {} ELSE HandlePageHide(listener[1], e, type))
    /\ UNCHANGED <<streamVars, chatSessionId, listener>>

\* The component unmounts while the page lives on (the application shows
\* something else): the cleanup of the effect removes the registered handler,
\* and nothing else runs. The state of the component is gone, and the
\* responses to its requests find nothing to act on.
Unmount ==
    /\ pageAlive
    /\ Unloaded({})
    /\ chatSessionId' = None
    /\ listener' = None
    /\ UNCHANGED <<streamVars, navType, hides>>

\* ---- handleSubmit

UserMessage(question) == [role |-> "user", content |-> question]
AssistantMessage(content) == [role |-> "assistant", content |-> content]

\* setMessages(prev => ...) of onError
WithError(prev, error) ==
    IF prev # <<>> /\ prev[Len(prev)].role = "assistant"
    THEN [prev EXCEPT ![Len(prev)].content = <<"Error: ", error>>]
    ELSE prev

\* The accepted submits, conversation changes and delivered chunks so far.
RECURSIVE Delivered(_)
Delivered(n) == IF n = 0 THEN 0 ELSE submits[n].chunks + Delivered(n - 1)

Actions == Len(submits) + thread + Delivered(Len(submits))

\* An invocation of handleSubmit that has passed the guard: the values of
\* input, sessionId, messages.length, conversationTitle and
\* currentConversationId of the render it was invoked in, its local
\* conversationId, and where it stands. Its question is input.trim().
Accepted(input) ==
    [input |-> input,
     sessionId |-> chatSessionId,
     first |-> Len(messages) = 0,
     title |-> conversationTitle,
     conversationId |-> currentConversationId,
     creation |-> "none",        \* of createConversation: pending, ok, failed
     titleUpdate |-> "none",     \* of updateConversationTitle: likewise
     pc |-> "create",            \* "create", "stream", then "returned"
     chunks |-> 0,               \* the chunks its onChunk has been given
     end |-> "none",             \* how the stream ended: "stored" when
                                 \*   onComplete has stored its session id,
                                 \*   else "complete", "error" or "ended"
     thread |-> thread]

\* conversationId && messages.length === 0 && conversationTitle === 'New Chat'
WantsTitle(s) == ~Falsy(s.conversationId) /\ s.first /\ s.title = NewChat

\* The invocation once it has called queryAgentStream.
Started(s) ==
    [s EXCEPT !.pc = "stream",
              !.titleUpdate = IF WantsTitle(s) THEN "pending" ELSE "none"]

\* Lines 104 to 142 of invocation i. The requests: the title update when it
\* is wanted, and the stream.
StartRequests(i, s) ==
    (IF WantsTitle(s)
     THEN {TitleRequest(i, s.conversationId[1], TruncatedTitle(s.input))}
     ELSE {})
    \cup {StreamRequest(i, Trim(s.input), s.sessionId, s.conversationId)}

\* The state: the user's message and an empty assistant message are added and
\* isLoading is set.
Proceed(i, s) ==
    /\ messages' = messages \o <<UserMessage(Trim(s.input)), AssistantMessage(<<>>)>>
    /\ isLoading' = TRUE

\* An invocation is over when queryAgentStream has returned and its title
\* update, if any, is settled. The log forgets an invocation that is over and
\* drops the requests it has issued; it keeps the number of its chunks, and of
\* an invocation whose stream has given the component its session id the
\* conversation id and the thread.
Over(s) == s.pc = "returned" /\ s.titleUpdate # "pending"

Forgotten(s) ==
    [input |-> <<>>, sessionId |-> None, first |-> FALSE,
     title |-> <<>>,
     conversationId |-> IF s.end = "stored" THEN s.conversationId ELSE None,
     creation |-> "none", titleUpdate |-> "none", pc |-> "over",
     chunks |-> s.chunks,
     end |-> IF s.end = "stored" THEN s.end ELSE "none",
     thread |-> IF s.end = "stored" THEN s.thread ELSE 0]

Without(i) ==
    LET kept == {r \in DOMAIN requests :
                    ~(r.kind \in {"create", "title", "stream"} /\ r.by = i)}
    IN [r \in kept |-> requests[r]]

\* The record of invocation i becomes s.
Record(i, s) ==
    /\ submits' = [submits EXCEPT ![i] = IF Over(s) THEN Forgotten(s) ELSE s]
    /\ requests' = IF Over(s) THEN Without(i) ELSE requests

\* handleSubmit with input in the input field. It returns at once when the
\* input is blank or isLoading; without a current conversation it calls
\* createConversation and waits; otherwise it goes on to the stream.
HandleSubmit(input) ==
    /\ pageAlive
    /\ IF Trim(input) = <<>> \/ isLoading
       THEN UNCHANGED <<submits, requests, messages, isLoading>>
       ELSE LET i == Len(submits) + 1
                s == Accepted(input)
            IN /\ Len(submits) < MaxSubmits
               /\ Actions < MaxActions
               /\ IF Falsy(s.conversationId)
                  THEN /\ submits' = Append(submits, [s EXCEPT !.creation = "pending"])
                       /\ requests' = Issue({CreateRequest(i, conversationTitle)})
                       /\ UNCHANGED <<messages, isLoading>>
                  ELSE /\ submits' = Append(submits, Started(s))
                       /\ requests' = Issue(StartRequests(i, s))
                       /\ Proceed(i, s)
    /\ UNCHANGED <<streamVars, navType, pageAlive, chatSessionId, currentConversationId,
                   conversationTitle, listener, loads, hides, thread>>

\* createConversation of invocation i resolves: the new id is the local
\* conversationId and the current conversation, and the invocation goes on.
CreateOk(i) ==
    /\ pageAlive
    /\ submits[i].pc = "create"
    /\ LET s == [submits[i] EXCEPT !.conversationId = Some(CreatedId(i)),
                                   !.creation = "ok"]
       IN /\ currentConversationId' = s.conversationId
          /\ submits' = [submits EXCEPT ![i] = Started(s)]
          /\ requests' = Issue(StartRequests(i, s))
          /\ Proceed(i, s)
    /\ UNCHANGED <<streamVars, navType, pageAlive, chatSessionId, conversationTitle,
                   listener, loads, hides, thread>>

\* A handleSubmit that ends when createConversation throws.
CreateAborts(i) ==
    /\ pageAlive
    /\ submits[i].pc = "create"
    /\ Record(i, [submits[i] EXCEPT !.creation = "failed", !.pc = "returned"])
    /\ UNCHANGED <<streamVars, navType, pageAlive, isLoading, chatSessionId,
                   currentConversationId, conversationTitle, messages, listener, loads,
                   hides, thread>>

\* createConversation of invocation i throws: the invocation goes on without
\* a conversation id.
CreateFails(i) ==
    /\ pageAlive
    /\ submits[i].pc = "create"
    /\ LET s == [submits[i] EXCEPT !.creation = "failed"]
       IN /\ submits' = [submits EXCEPT ![i] = Started(s)]
          /\ requests' = Issue(StartRequests(i, s))
          /\ Proceed(i, s)
    /\ UNCHANGED <<streamVars, navType, pageAlive, chatSessionId, currentConversationId,
                   conversationTitle, listener, loads, hides, thread>>

\* updateConversationTitle of invocation i resolves: .then
TitleOk(i) ==
    /\ pageAlive
    /\ submits[i].titleUpdate = "pending"
    /\ conversationTitle' = TruncatedTitle(submits[i].input)
    /\ Record(i, [submits[i] EXCEPT !.titleUpdate = "ok"])
    /\ UNCHANGED <<streamVars, navType, pageAlive, isLoading, chatSessionId,
                   currentConversationId, messages, listener, loads, hides, thread>>

\* An updateConversationTitle whose failure is reported like that of the
\* stream.
TitleFailureSurfaces(i) ==
    /\ pageAlive
    /\ submits[i].titleUpdate = "pending"
    /\ messages' = WithError(messages, "Failed to update conversation title")
    /\ isLoading' = FALSE
    /\ Record(i, [submits[i] EXCEPT !.titleUpdate = "failed"])
    /\ UNCHANGED <<streamVars, navType, pageAlive, chatSessionId, currentConversationId,
                   conversationTitle, listener, loads, hides, thread>>

\* updateConversationTitle of invocation i rejects: .catch
TitleFails(i) ==
    /\ pageAlive
    /\ submits[i].titleUpdate = "pending"
    /\ Record(i, [submits[i] EXCEPT !.titleUpdate = "failed"])
    /\ UNCHANGED <<streamVars, navType, pageAlive, isLoading, chatSessionId,
                   currentConversationId, conversationTitle, messages, listener, loads,
                   hides, thread>>

\* ---- the callbacks handleSubmit passes to queryAgentStream

\* The messages queryAgentStream reports through onError: here the one of a
\* transport failure.
Errors == {CatchMessage([isError |-> TRUE, message |-> "Failed to fetch"])}

\* setMessages(prev => ...) of onChunk
WithChunk(prev, chunk) ==
    IF prev # <<>> /\ prev[Len(prev)].role = "assistant"
    THEN [prev EXCEPT ![Len(prev)].content = @ \o chunk]
    ELSE prev

\* The content of the chunk records of a stream.
Chunks == {<<"a">>}

\* The stream of invocation i delivers a chunk record: onChunk
StreamChunk(i, chunk) ==
    /\ pageAlive
    /\ submits[i].pc = "stream"
    /\ Actions < MaxActions
    /\ messages' = WithChunk(messages, chunk)
    /\ submits' = [submits EXCEPT ![i].chunks = @ + 1]
    /\ UNCHANGED <<streamVars, navType, pageAlive, isLoading, chatSessionId,
                   currentConversationId, conversationTitle, listener, loads, requests,
                   hides, thread>>

\* The session id the backend uses in the stream of invocation i: the one the
\* request carries, or a new one.
BackendSession(i) ==
    IF Falsy(submits[i].sessionId) THEN AssignedSession(i) ELSE submits[i].sessionId[1]

\* The stream of invocation i delivers its done record, with or without a
\* session id, after a session record or none: onComplete
StreamComplete(i) ==
    /\ pageAlive
    /\ submits[i].pc = "stream"
    /\ \E data \in {Done(None, None), Done(None, Some(BackendSession(i)))},
          current \in {submits[i].sessionId, Some(BackendSession(i))} :
          LET newSessionId == CompleteSessionId(data, current)
          IN IF Falsy(submits[i].sessionId) /\ newSessionId # ""
             THEN /\ SetSessionId(Some(newSessionId))
                  /\ Record(i, [submits[i] EXCEPT !.pc = "returned", !.end = "stored"])
             ELSE /\ UNCHANGED <<chatSessionId, listener>>
                  /\ Record(i, [submits[i] EXCEPT !.pc = "returned",
                                                  !.end = "complete"])
    /\ isLoading' = FALSE
    /\ UNCHANGED <<streamVars, navType, pageAlive, currentConversationId,
                   conversationTitle, messages, loads, hides, thread>>

\* A stream that is requested again when it fails.
StreamRetried(i, error) ==
    /\ pageAlive
    /\ submits[i].pc = "stream"
    /\ requests' = Issue({StreamRequest(i, Trim(submits[i].input), submits[i].sessionId,
                                        submits[i].conversationId)})
    /\ UNCHANGED <<streamVars, navType, pageAlive, isLoading, chatSessionId,
                   currentConversationId, conversationTitle, messages, listener, submits,
                   loads, hides, thread>>

\* The stream of invocation i fails: onError
StreamError(i, error) ==
    /\ pageAlive
    /\ submits[i].pc = "stream"
    /\ messages' = WithError(messages, error)
    /\ isLoading' = FALSE
    /\ Record(i, [submits[i] EXCEPT !.pc = "returned", !.end = "error"])
    /\ UNCHANGED <<streamVars, navType, pageAlive, chatSessionId, currentConversationId,
                   conversationTitle, listener, loads, hides, thread>>

\* The body of the stream of invocation i ends with no done or error record:
\* queryAgentStream returns and no callback is called.
StreamEnds(i) ==
    /\ pageAlive
    /\ submits[i].pc = "stream"
    /\ Record(i, [submits[i] EXCEPT !.pc = "returned", !.end = "ended"])
    /\ UNCHANGED <<streamVars, navType, pageAlive, isLoading, chatSessionId,
                   currentConversationId, conversationTitle, messages, listener, loads,
                   hides, thread>>

\* ---- handleConversationSelect and handleNewChat

\* conversation.title || 'Untitled Chat'
UntitledChat == <<"U", "n", "t", "i", "t", "l", "e", "d", " ", "C", "h", "a", "t">>

\* The log of the invocations of handleConversationSelect forgets, when a new
\* one is made, how those before it have settled, and drops their requests.
Settled ==
    [j \in DOMAIN loads |->
        IF loads[j].state = "pending" THEN loads[j] ELSE [loads[j] EXCEPT !.state = "over"]]

Unsettled ==
    LET kept == {r \in DOMAIN requests :
                    ~(r.kind = "load" /\ loads[r.by].state # "pending")}
    IN [r \in kept |-> requests[r]]

\* handleConversationSelect(conversationId) up to its await: isLoading is
\* set, the conversation is made current, and its details and messages are
\* requested.
HandleConversationSelect(conversationId) ==
    /\ pageAlive
    /\ Actions < MaxActions
    /\ isLoading' = TRUE
    /\ currentConversationId' = Some(conversationId)
    /\ loads' = Append(Settled, [conversationId |-> conversationId, state |-> "pending"])
    /\ requests' = Unsettled (+) SetToBag({LoadRequest(Len(loads) + 1, conversationId)})
    /\ thread' = thread + 1
    /\ UNCHANGED <<streamVars, navType, pageAlive, chatSessionId, conversationTitle,
                   messages, listener, submits, hides>>

\* Both requests of invocation j resolve: the messages and the title are those
\* of the conversation, the session id is cleared; finally isLoading is reset.
LoadOk(j, title) ==
    /\ pageAlive
    /\ loads[j].state = "pending"
    /\ messages' = PersistedMessages
    /\ SetSessionId(None)
    /\ conversationTitle' = IF title = <<>> THEN UntitledChat ELSE title
    /\ isLoading' = FALSE
    /\ loads' = [loads EXCEPT ![j].state = "ok"]
    /\ UNCHANGED <<streamVars, navType, pageAlive, currentConversationId, submits,
                   requests, hides, thread>>

\* A request of invocation j rejects: catch, finally isLoading is reset.
LoadFails(j) ==
    /\ pageAlive
    /\ loads[j].state = "pending"
    /\ isLoading' = FALSE
    /\ loads' = [loads EXCEPT ![j].state = "failed"]
    /\ UNCHANGED <<streamVars, navType, pageAlive, chatSessionId, currentConversationId,
                   conversationTitle, messages, listener, submits, requests, hides,
                   thread>>

\* handleNewChat()
HandleNewChat ==
    /\ pageAlive
    /\ Actions < MaxActions
    /\ messages' = <<>>
    /\ currentConversationId' = None
    /\ conversationTitle' = NewChat
    /\ SetSessionId(None)
    /\ thread' = thread + 1
    /\ UNCHANGED <<streamVars, navType, pageAlive, isLoading, submits, loads, requests,
                   hides>>

ChatNext ==
    \/ \E input \in Questions : HandleSubmit(input)
    \/ \E i \in DOMAIN submits : CreateOk(i)
    \/ \E i \in DOMAIN submits : CreateFails(i)
    \/ \E i \in DOMAIN submits : TitleOk(i)
    \/ \E i \in DOMAIN submits : TitleFails(i)
    \/ \E i \in DOMAIN submits, chunk \in Chunks : StreamChunk(i, chunk)
    \/ \E i \in DOMAIN submits : StreamComplete(i)
    \/ \E i \in DOMAIN submits, error \in Errors : StreamError(i, error)
    \/ \E i \in DOMAIN submits : StreamEnds(i)
    \/ \E conversationId \in Persisted : HandleConversationSelect(conversationId)
    \/ \E j \in DOMAIN loads, title \in PersistedTitles : LoadOk(j, title)
    \/ \E j \in DOMAIN loads : LoadFails(j)
    \/ HandleNewChat
    \/ \E e \in PageHideEvents, type \in NavigationTypes : PageHide(e, type)
    \/ Unmount

ChatSpec == ChatInit /\ [][ChatNext]_vars

\* ------------------------------------------------------ reading the state

\* The call got a successful response with a body of event records.
Streaming == response.ok /\ response.body # None /\ pc # "fetch" /\ exit # "caught"

\* The lines of the records the server wrote.
LinesOf(rs) == [i \in 1..Len(rs) |-> Line(rs[i])]

\* A record is an event when it is a data line whose JSON text is an object
\* of one of the four types; every other record is malformed.
IsEvent(r) ==
    /\ r.data
    /\ "type" \in DOMAIN r.json
    /\ r.json.type \in {"session", "chunk", "done", "error"}

IsTerminal(r) == IsEvent(r) /\ r.json.type \in {"done", "error"}

\* The number of records up to and including the first done or error record.
UpToTerminal(rs) ==
    LET ts == {i \in 1..Len(rs) : IsTerminal(rs[i])}
    IN IF ts = {} THEN Len(rs) ELSE CHOOSE i \in ts : \A j \in ts : i <= j

\* The positions of the terminal callbacks in the log.
Terminals == {i \in 1..Len(calls) : calls[i].cb \in {"onComplete", "onError"}}

\* The locals of a call at the start of its loop.
LoopStart ==
    [fullResponse |-> <<>>, currentSessionId |-> sessionId, calls |-> <<>>,
     processed |-> <<>>, exit |-> "none"]

\* The record whose branch returned from the call, and the records before it
\* (meaningful when exit is "done" or "error").
ReturningRecord == records[Len(processed)].json
RecordsBefore == SubSeq(records, 1, Len(processed) - 1)

\* The contents of the chunk records of rs, in order, and their concatenation.
RECURSIVE ChunkContents(_)
ChunkContents(rs) ==
    IF rs = <<>> THEN <<>>
    ELSE (IF IsEvent(Head(rs)) /\ Head(rs).json.type = "chunk"
          THEN <<Head(rs).json.content>> ELSE <<>>) \o ChunkContents(Tail(rs))

RECURSIVE Concat(_)
Concat(ts) == IF ts = <<>> THEN <<>> ELSE Head(ts) \o Concat(Tail(ts))

ChunkCalls(rs) == LET cs == ChunkContents(rs) IN [i \in 1..Len(cs) |-> OnChunk(cs[i])]

\* The session ids carried by the session records of rs, in order.
RECURSIVE SessionIds(_)
SessionIds(rs) ==
    IF rs = <<>> THEN <<>>
    ELSE (IF IsEvent(Head(rs)) /\ Head(rs).json.type = "session"
          THEN <<Head(rs).json.session_id>> ELSE <<>>) \o SessionIds(Tail(rs))

\* The body of an error response that is the JSON document d.
DocBody(d) == Some(Utf8(<<[json |-> d]>>))

\* ------------------------------------------------------------------ claims

\* C1: frame decoding is independent of fragmentation.  Whatever the cuts of
\* the body into read() buffers, the lines taken by the loop are at every
\* moment the first lines of the records written, in order, and when the call
\* is over (the body ended, or a done or error record returned) they are
\* exactly the records up to the first terminal record: all N without one.
C1_FramingIndependentOfCuts ==
    (Streaming /\ partial = <<>>) =>
        /\ Len(processed) <= Len(records)
        /\ processed = SubSeq(LinesOf(records), 1, Len(processed))
        /\ pc = "returned" => Len(processed) = UpToTerminal(records)

\* Two of three records are taken, the third is in the buffer with the first
\* newline of its blank line, and the second newline is still to be read.
C1_Witness ==
    /\ Streaming /\ partial = <<>> /\ pc = "read"
    /\ Len(records) = 3 /\ Len(processed) = 2
    /\ buffer = Line(records[3]) \o <<NL>>
    /\ wire = Utf8(<<NL>>)

\* C2: a body that ends inside a record: the unterminated record is never
\* taken by the loop and causes no callback, whatever it holds.  When the
\* call returns at the end of the body, the callbacks are those of the
\* terminated records alone.
C2_PartialRecordNeverProcessed ==
    (Streaming /\ partial # <<>>) =>
        /\ Len(processed) <= Len(records)
        /\ processed = SubSeq(LinesOf(records), 1, Len(processed))
        /\ exit = "eof" =>
              /\ processed = LinesOf(records)
              /\ calls = ProcessLines(LinesOf(records), LoopStart).calls

\* The body is a chunk record followed by a complete-looking done record
\* without its blank line; the call has returned with the chunk alone.
C2_Witness ==
    /\ Streaming /\ exit = "eof"
    /\ records = <<ChunkA>>
    /\ partial = Line(DataRecord(Done(Some(<<"R">>), None)))
    /\ calls = <<OnChunk(<<"A">>)>>

\* C3: at most one terminal callback (onComplete or onError) is invoked in a
\* call, and it is the last callback: no onChunk follows it.
C3_AtMostOneTerminalAndLast ==
    /\ Cardinality(Terminals) <= 1
    /\ \A i \in Terminals : i = Len(calls)

\* A chunk record follows the done record in the body, and the call returned
\* at the done record.
C3_Witness ==
    /\ exit = "done"
    /\ records = <<ChunkA, DoneBare, ChunkA>>
    /\ Len(calls) = 2 /\ calls[2].cb = "onComplete"

\* C4 (as claimed): every call that has returned has invoked exactly one of
\* onComplete and onError.
C4_ExactlyOneTerminalAtReturn ==
    pc = "returned" => Cardinality(Terminals) = 1

\* C5 (as claimed): onComplete receives the response field of the done record
\* whenever the record carries one, and otherwise the concatenation of the
\* contents of the chunk records before it.
C5_ResponseFieldWheneverCarried ==
    exit = "done" =>
        calls[Len(calls)].fullResponse =
            IF ReturningRecord.response # None
            THEN ReturningRecord.response[1]
            ELSE Concat(ChunkContents(RecordsBefore))

\* C5 (amended): onComplete receives the response field of the done record
\* when the record carries a non-empty one, and otherwise (no field, or an
\* empty one) the concatenation, in arrival order, of the contents of the
\* chunk records before it.
C5_NonEmptyResponseElseChunks ==
    exit = "done" =>
        /\ calls[Len(calls)].cb = "onComplete"
        /\ calls[Len(calls)].fullResponse =
              IF ReturningRecord.response # None /\ ReturningRecord.response[1] # <<>>
              THEN ReturningRecord.response[1]
              ELSE Concat(ChunkContents(RecordsBefore))

\* chunk A, chunk B, done without response: onComplete receives "AB".
C5_Witness ==
    /\ exit = "done"
    /\ records = <<ChunkA, ChunkB, DoneBare>>
    /\ calls[3] = OnComplete(<<"A", "B">>, "")

\* C6 (as claimed): at an error record onError is called once, with the
\* error message of the record; onComplete is not called, and the only chunks
\* delivered are those of the chunk records before the error record.
C6_ErrorWithRecordMessage ==
    exit = "error" =>
        calls = ChunkCalls(RecordsBefore)
                \o <<OnError(IF ReturningRecord.error # None
                              THEN ReturningRecord.error[1]
                              ELSE "Unknown error")>>

\* C6 (amended): as claimed, except that onError receives 'Unknown error'
\* when the record carries no error message or an empty one.
C6_ErrorWithMessageOrUnknown ==
    exit = "error" =>
        calls = ChunkCalls(RecordsBefore)
                \o <<OnError(IF ReturningRecord.error \in {None, Some("")}
                              THEN "Unknown error"
                              ELSE ReturningRecord.error[1])>>

\* chunk A, error "boom", chunk A: onChunk("A"), onError("boom"), and nothing
\* for the last chunk.
C6_Witness ==
    /\ exit = "error"
    /\ records = <<ChunkA, DataRecord(Error(Some("boom"))), ChunkA>>
    /\ calls = <<OnChunk(<<"A">>), OnError("boom")>>

\* C7 (as claimed): a response whose status is not a success makes the call
\* invoke onError once and nothing else, with the detail the server supplied
\* and else with the HTTP-status message.
C7_DetailElseStatusMessage ==
    exit = "http" =>
        /\ outcome = "fulfilled"
        /\ calls = <<OnError(
              IF \E d \in ErrorDocs \ {JsonNull} :
                    response.body = DocBody(d) /\ d.detail \notin {None, Some("")}
              THEN (CHOOSE d \in ErrorDocs \ {JsonNull} : response.body = DocBody(d)).detail[1]
              ELSE HttpStatusMessage(response.status))>>

\* C7 (amended): a response whose status is not a success makes the call
\* invoke onError once and nothing else: with the detail of the JSON document
\* in the body when it carries a non-empty one; with 'Unknown error' when the
\* body is not JSON (as when it holds event records) or is empty; with the
\* message of the TypeError when the body is the JSON null; and with the
\* HTTP-status message otherwise.  No record of the body is processed.
C7_ErrorResponseReportedOnce ==
    exit = "http" =>
        /\ outcome = "fulfilled"
        /\ processed = <<>>
        /\ calls = <<OnError(
              IF response.body = DocBody(JsonNull)
              THEN "Cannot read properties of null (reading 'detail')"
              ELSE IF \E d \in ErrorDocs \ {JsonNull} : response.body = DocBody(d)
              THEN LET d == CHOOSE e \in ErrorDocs \ {JsonNull} : response.body = DocBody(e)
                   IN IF d.detail \in {None, Some("")}
                      THEN HttpStatusMessage(response.status)
                      ELSE d.detail[1]
              ELSE "Unknown error")>>

\* The body of the error response holds a chunk record and a done record.
C7_Witness ==
    /\ exit = "http"
    /\ records = <<ChunkA, DoneBare>>
    /\ Len(calls) = 1 /\ calls[1].cb = "onError"

\* C8: a transport failure (fetch rejects, no body, a read rejects) is
\* reported by exactly one onError, the last callback of the call, never
\* together with onComplete, and the promise of the call is fulfilled; the
\* promise is never rejected.
C8_TransportFailureReportedOnce ==
    /\ outcome # "rejected"
    /\ exit \in {"caught", "nobody"} =>
          /\ outcome = "fulfilled"
          /\ Terminals = {Len(calls)}
          /\ calls[Len(calls)].cb = "onError"

\* A read rejected after a chunk had been delivered.
C8_Witness ==
    /\ exit = "caught"
    /\ calls = <<OnChunk(<<"A">>), OnError("Failed to fetch")>>

\* C9 (as claimed): the session id given to onComplete is the one of the
\* done record; else the one of the last session record received; else the
\* one the caller passed; else the empty string.
C9_SessionIdPrecedence ==
    exit = "done" =>
        LET ids == SessionIds(RecordsBefore)
        IN calls[Len(calls)].newSessionId =
              IF ~Falsy(ReturningRecord.session_id) THEN ReturningRecord.session_id[1]
              ELSE IF ids # <<>> /\ ~Falsy(ids[Len(ids)]) THEN ids[Len(ids)][1]
              ELSE IF ~Falsy(sessionId) THEN sessionId[1]
              ELSE ""

\* C10: a malformed record is dropped: the callbacks invoked are at every
\* moment those of the events among the records taken so far, as if the
\* malformed records had not been sent, and only a done or error record
\* ends the loop before the end of the body.
C10_MalformedRecordsDropped ==
    Streaming =>
        /\ calls = ProcessLines(LinesOf(SelectSeq(SubSeq(records, 1, Len(processed)), IsEvent)),
                                LoopStart).calls
        /\ exit \in {"done", "error"} => IsTerminal(records[Len(processed)])
        /\ exit = "eof" => Len(processed) = Len(records)

\* chunk A, a record that is not JSON, chunk A: both chunks are delivered.
C10_Witness ==
    /\ exit = "eof"
    /\ records = <<ChunkA, DataRecord(InvalidJson), ChunkA>>
    /\ calls = <<OnChunk(<<"A">>), OnChunk(<<"A">>)>>


\* ======================================================= the session's end

\* The page has received a pagehide event while a handler was registered,
\* that is, while a session was active.
HiddenWithSession == hides # <<>> /\ hides[1].session # None

\* The deletion requests the page has issued for a session id, and for any.
Deletions(session) == CopiesIn(DeleteRequest(0, session), requests)
AnyDeletion == \E r \in BagToSet(requests) : r.kind = "delete"

C12_ReloadNeverDeletes ==
    HiddenWithSession /\ hides[1].event.cause = "reload" => ~AnyDeletion

\* C13: a pagehide caused by closing the tab or navigating away (the page not
\* being kept) while a session is active issues a deletion request for that
\* session, however the current page was loaded.
C13_LeavingAlwaysDeletes ==
    HiddenWithSession /\ hides[1].event.cause \in {"close", "navigate"}
                      /\ hides[1].event.persisted = FALSE
        => Deletions(hides[1].session[1]) >= 1


\* ================================================== conversation changes

\* A step in which an invocation of handleConversationSelect ends, with the
\* conversation loaded or not, and a step of handleNewChat.
SelectEnds ==
    \E j \in DOMAIN loads :
        /\ loads[j].state = "pending"
        /\ j \in DOMAIN loads'
        /\ loads'[j].state \in {"ok", "failed"}

NewChatStep == thread' = thread + 1 /\ loads' = loads

\* C14: every change of the current conversation, handleConversationSelect
\* whether loading succeeds or fails and handleNewChat, leaves the session id
\* at none.
C14_ChangeLeavesNoSession ==
    [][SelectEnds \/ NewChatStep => chatSessionId' = None]_vars


\* The stream requests the page has issued.
StreamRequests == {r \in BagToSet(requests) : r.kind = "stream"}

\* The invocations whose stream has given the component its session id.
Stored == {j \in DOMAIN submits : submits[j].end = "stored"}

\* C15: the session id produced by a stream that was started under one
\* conversation or new-chat thread is never sent in a later queryAgentStream
\* call together with a different conversation id.
C15_NoSessionAcrossConversations ==
    \A r \in StreamRequests : \A j \in Stored :
        r.session = Some(AssignedSession(j)) =>
            \/ submits[r.by].thread = submits[j].thread
            \/ r.conv = submits[j].conversationId

\* The invocations of handleSubmit that are accepted and whose stream has not
\* ended: waiting for createConversation or for queryAgentStream.
OpenSubmits == {i \in DOMAIN submits : submits[i].pc \in {"create", "stream"}}

\* C16: from the moment a handleSubmit is accepted until its stream ends, no
\* other handleSubmit is accepted: at most one invocation is open.
C16_AtMostOneOpen == Cardinality(OpenSubmits) <= 1


\* =============================================== the conversation's record

\* A step in which createConversation of invocation i settles.
CreationSettles(i) ==
    /\ submits[i].creation = "pending"
    /\ i \in DOMAIN submits'
    /\ submits'[i].creation # "pending"

\* C17: a handleSubmit accepted with no current conversation id issues the
\* create-conversation request and issues no stream request before the
\* creation settles. When it settles the stream request is issued: after a
\* success it carries the new id, which is stored as the current conversation
\* id; after a failure it carries no conversation id.
C17_LazyConversationCreation ==
    [][/\ \A i \in DOMAIN submits' :
             submits'[i].creation = "pending" =>
                /\ Falsy(submits'[i].conversationId)
                /\ CopiesIn(CreateRequest(i, submits'[i].title), requests') = 1
                /\ ~\E r \in BagToSet(requests') : r.kind = "stream" /\ r.by = i
       /\ \A i \in DOMAIN submits :
             CreationSettles(i) =>
                LET s == submits'[i]
                    sent == {r \in BagToSet(requests') : r.kind = "stream" /\ r.by = i}
                IN /\ s.creation \in {"ok", "failed"}
                   /\ sent = {StreamRequest(i, Trim(s.input), s.sessionId, s.conversationId)}
                   /\ \A r \in sent : requests'[r] = 1
                   /\ s.creation = "ok" =>
                         /\ s.conversationId = Some(CreatedId(i))
                         /\ \A r \in sent : r.conv = Some(CreatedId(i))
                         /\ currentConversationId' = Some(CreatedId(i))
                   /\ s.creation = "failed" => \A r \in sent : r.conv = None
      ]_vars

\* The creation of the conversation of the first question has failed, and its
\* stream is open, requested without a conversation id.
C17_Witness ==
    /\ Len(submits) = 1
    /\ submits[1].creation = "failed"
    /\ submits[1].pc = "stream"
    /\ StreamRequests = {StreamRequest(1, Trim(submits[1].input), None, None)}
    /\ currentConversationId = None


\* The title updates invocation i has requested.
TitleRequests(i) == {r \in BagToSet(requests) : r.kind = "title" /\ r.by = i}

\* The title a question is to give: the trimmed question when it has at most
\* 50 characters, else its first 50 characters followed by "...".
TitleOf(input) ==
    LET q == Trim(input)
    IN IF Len(q) <= 50 THEN q ELSE SubSeq(q, 1, 50) \o <<".", ".", ".">>

\* C18: a handleSubmit that has created its conversation while the title was
\* the placeholder "New Chat" requests exactly one title update, for the new
\* conversation and with the title of its question, also when the
\* conversation is created on a later turn.
C18_FreshConversationGetsTitle ==
    \A i \in DOMAIN submits :
        submits[i].creation = "ok" /\ submits[i].title = NewChat =>
            /\ TitleRequests(i) = {TitleRequest(i, CreatedId(i), TitleOf(submits[i].input))}
            /\ \A r \in TitleRequests(i) : requests[r] = 1


\* A step in which updateConversationTitle of invocation i settles.
TitleSettles(i) ==
    /\ submits[i].titleUpdate = "pending"
    /\ i \in DOMAIN submits'
    /\ submits'[i].titleUpdate # "pending"

\* C19: a failed create-conversation or title-update request is not reported
\* through onError and neither prevents nor delays the stream. When the
\* creation fails the stream is requested in the same step, with the empty
\* assistant message in place and isLoading set. The title update is
\* requested with the stream, never before it; when it settles, the messages,
\* isLoading, the session id and the stream are as they were, and the
\* displayed title is the requested one or, when the update has failed, the
\* one displayed before.
C19_CollaboratorFailuresSwallowed ==
    [][/\ \A i \in DOMAIN submits' :
             submits'[i].titleUpdate = "pending" =>
                /\ submits'[i].pc \in {"stream", "returned"}
                /\ \E r \in BagToSet(requests') : r.kind = "stream" /\ r.by = i
       /\ \A i \in DOMAIN submits :
             CreationSettles(i) /\ submits'[i].creation = "failed" =>
                /\ submits'[i].pc = "stream"
                /\ \E r \in BagToSet(requests') : r.kind = "stream" /\ r.by = i
                /\ messages' = messages \o <<UserMessage(Trim(submits[i].input)),
                                             AssistantMessage(<<>>)>>
                /\ isLoading'
       /\ \A i \in DOMAIN submits :
             TitleSettles(i) =>
                /\ messages' = messages
                /\ isLoading' = isLoading
                /\ chatSessionId' = chatSessionId
                /\ submits[i].pc = "stream" => submits'[i].pc = "stream"
                /\ \/ conversationTitle' = conversationTitle
                   \/ /\ submits'[i].titleUpdate # "failed"
                      /\ conversationTitle' = TruncatedTitle(submits[i].input)
      ]_vars

\* The title update of the first question has failed while its stream is
\* open: the title is still the placeholder and the assistant message empty.
C19_Witness ==
    /\ Len(submits) = 1
    /\ submits[1].titleUpdate = "failed"
    /\ submits[1].pc = "stream"
    /\ conversationTitle = NewChat
    /\ isLoading
    /\ messages = <<UserMessage(Trim(submits[1].input)), AssistantMessage(<<>>)>>


\* The number of stream requests invocation i of handleSubmit has issued.
StreamRequestsBy(i) ==
    LET by == {r \in BagToSet(requests) : r.kind = "stream" /\ r.by = i}
        Sum[rs \in SUBSET by] ==
            IF rs = {} THEN 0
            ELSE LET r == CHOOSE x \in rs : TRUE
                 IN CopiesIn(r, requests) + Sum[rs \ {r}]
    IN Sum[by]

\* C20: there is no automatic retry. An accepted handleSubmit has issued no
\* stream request while it waits for createConversation, and exactly one, for
\* its question with the session and the conversation it started with, from
\* then on: while the stream is open and after it has completed, failed or
\* ended.
C20_OneStreamRequestPerSubmit ==
    \A i \in DOMAIN submits :
        /\ submits[i].pc = "create" => StreamRequestsBy(i) = 0
        /\ submits[i].pc \in {"stream", "returned"} =>
              /\ StreamRequestsBy(i) = 1
              /\ CopiesIn(StreamRequest(i, Trim(submits[i].input), submits[i].sessionId,
                                        submits[i].conversationId), requests) = 1

\* The stream of the first question has failed and been reported through
\* onError, while its title update is still under way: one stream request.
C20_Witness ==
    /\ Len(submits) >= 1
    /\ submits[1].pc = "returned"
    /\ submits[1].end = "error"
    /\ StreamRequestsBy(1) = 1
    /\ ~isLoading
    /\ messages # <<>>
    /\ messages[Len(messages)].content = <<"Error: ", "Failed to fetch">>


\* The stream requests issued in a step.
NewStreamRequests ==
    {r \in BagToSet(requests') :
        r.kind = "stream" /\ CopiesIn(r, requests') > CopiesIn(r, requests)}

\* C21: the session id is maintained throughout a conversation. The component
\* holds a session id from the completion of a stream that stores it until a
\* conversation switch or a new chat; every queryAgentStream call made while
\* it holds one sends that session id.
C21_HeldSessionIsSent ==
    [][chatSessionId # None =>
          \A r \in NewStreamRequests : r.session = chatSessionId]_vars


\* A step in which the component unmounts: it stops running and the page has
\* received no pagehide event.
UnmountStep == pageAlive /\ ~pageAlive' /\ hides' = <<>>

\* C22: unmounting the component while a session id is held issues a deletion
\* request for that session.
C22_UnmountDeletesSession ==
    [][UnmountStep /\ chatSessionId # None =>
          \E r \in BagToSet(requests') :
              r.kind = "delete" /\ r.session = chatSessionId]_vars


\* The last handleConversationSelect has loaded its conversation, and the
\* messages are still the persisted ones.
ShowsLoaded ==
    /\ pageAlive
    /\ loads # <<>>
    /\ loads[Len(loads)].state = "ok"
    /\ messages = PersistedMessages

\* A step in which a handleSubmit is accepted or goes on after
\* createConversation, the conversation is changed, or the component stops.
SubmitOrChange ==
    \/ Len(submits') # Len(submits)
    \/ \E i \in DOMAIN submits : submits[i].pc = "create" /\ submits'[i].pc # "create"
    \/ thread' # thread
    \/ ~pageAlive'

\* C23: once handleConversationSelect has loaded a conversation, the messages
\* are exactly the persisted messages of that conversation, and they stay so
\* until the next submit or conversation change: a stream that was open at
\* the time of the switch adds nothing to them.
C23_LoadedMessagesStay ==
    [][/\ SelectEnds /\ loads'[Len(loads')].state = "ok" => messages' = PersistedMessages
       /\ ShowsLoaded /\ ~SubmitOrChange => messages' = PersistedMessages]_vars


\* A step in which onComplete of invocation i stores the session id of its
\* stream: no session id was held when i was submitted.
StoresSession(i) ==
    /\ submits[i].pc = "stream"
    /\ i \in DOMAIN submits'
    /\ submits'[i].end = "stored"
    /\ Falsy(submits[i].sessionId)
    /\ chatSessionId' = Some(BackendSession(i))

\* A step of one of the writers of the session id: a completion that stores,
\* or the reset of a conversation select or new chat; at unmount the state is
\* gone.
WritesSession ==
    \/ \E i \in DOMAIN submits : StoresSession(i)
    \/ (SelectEnds \/ NewChatStep) /\ chatSessionId' = None
    \/ UnmountStep

\* C24: the session id of the component has two kinds of writers. The
\* completion handler of a stream takes it from unset to active, only when no
\* session was held at submit time and the completion carries a non-empty id;
\* the reset of conversation select and new chat takes it to unset. Every
\* other step (a chunk, a stream ending in error, conversation creation,
\* title update, pagehide) leaves it unchanged.
C24_SessionIdWriters ==
    [][chatSessionId' # chatSessionId =>
          /\ WritesSession
          /\ (\E i \in DOMAIN submits : StoresSession(i)) => chatSessionId = None]_vars


\* The records the loop has taken so far, and those of them that are not
\* session records.
Taken == SubSeq(records, 1, Len(processed))

IsSession(r) == IsEvent(r) /\ r.json.type = "session"

NotSession(r) == ~IsSession(r)

\* A callback without the session id it was given.
WithoutSessionId(c) == IF c.cb = "onComplete" THEN [c EXCEPT !.newSessionId = ""] ELSE c

Anonymous(cs) == [i \in 1..Len(cs) |-> WithoutSessionId(cs[i])]

\* C25: a session record only updates the active session id of the call.
\* Whenever session records are among the records taken, the callbacks invoked
\* (but for the session id onComplete is given), the end of the call and,
\* while the loop runs, the accumulated fullResponse are those of the same
\* records without the session records, and the active session id is the one
\* of the last session record taken.
C25_SessionRecordOnlySetsSessionId ==
    (Streaming /\ \E i \in 1..Len(Taken) : IsSession(Taken[i])) =>
        LET without == ProcessLines(LinesOf(SelectSeq(Taken, NotSession)), LoopStart)
            ids == SessionIds(Taken)
        IN /\ Anonymous(calls) = Anonymous(without.calls)
           /\ (exit \in {"done", "error"}) = (without.exit \in {"done", "error"})
           /\ exit \in {"done", "error"} => exit = without.exit
           /\ pc = "read" =>
                 /\ fullResponse = without.fullResponse
                 /\ currentSessionId = ids[Len(ids)]

\* A chunk and then a session record have been taken: the chunk is the only
\* callback, the loop goes on with the chunk's text and the new session id.
C25_Witness ==
    /\ Streaming /\ pc = "read"
    /\ Len(records) = 3
    /\ Taken = <<ChunkA, DataRecord(Session(Some("S1")))>>
    /\ calls = <<OnChunk(<<"A">>)>>
    /\ fullResponse = <<"A">>
    /\ currentSessionId = Some("S1")


IsChunkCall(c) == c.cb = "onChunk"

\* C26: chunk delivery preserves order and granularity. At every moment the
\* onChunk calls of the call are those of the chunk records taken so far, one
\* call per record with the content of that record, in the order of the
\* records in the body; and when the call returns the records taken are all
\* the records up to the first done or error record, whatever the cuts of the
\* body into buffers.
C26_OneCallPerChunkInOrder ==
    Streaming =>
        /\ SelectSeq(calls, IsChunkCall) = ChunkCalls(Taken)
        /\ pc = "returned" => Len(processed) = UpToTerminal(records)

\* Chunks A, B, A are sent; A and B have been delivered by separate calls and
\* the last read has ended inside the third record.
C26_Witness ==
    /\ Streaming /\ pc = "read"
    /\ records = <<ChunkA, ChunkB, ChunkA>>
    /\ calls = <<OnChunk(<<"A">>), OnChunk(<<"B">>)>>
    /\ buffer # <<>>
    /\ buffer # Line(ChunkA) \o <<NL>>
    /\ Len(buffer) < Len(Line(ChunkA))


\* C27: once a done or error record has been processed the read loop stops.
\* The call has returned at that record, the first done or error record of
\* the body: its callback is the last, no record after it is taken, whether
\* it came in the same buffer or not, and nothing happens in the call from
\* then on: no read() is issued.
C27_TerminalRecordStopsTheLoop ==
    [][/\ exit' \in {"done", "error"} =>
             /\ pc' = "returned"
             /\ Len(processed') = UpToTerminal(records')
             /\ IsTerminal(records'[Len(processed')])
             /\ calls'[Len(calls')].cb = (IF exit' = "done" THEN "onComplete" ELSE "onError")
       /\ exit \in {"done", "error"} => FALSE]_vars

\* An error record between two chunks: the call has returned at the error
\* record, and the chunk after it has caused nothing.
C27_Witness ==
    /\ exit = "error"
    /\ pc = "returned"
    /\ records = <<ChunkA, DataRecord(Error(Some("boom"))), ChunkA>>
    /\ Len(processed) = 2
    /\ calls = <<OnChunk(<<"A">>), OnError("boom")>>


\* C28: no deletion request is issued while no session is active, nor when
\* the page is hidden into the back/forward cache. At every moment the one
\* pagehide handler there can be is registered exactly while a session id is
\* held, and has captured that id; a deletion request is issued by a pagehide
\* that does not keep the page, once, and names the session id held then.
C28_DeletionOnlyOfHeldSession ==
    /\ listener = (IF Falsy(chatSessionId) THEN None ELSE chatSessionId)
    /\ \A r \in BagToSet(requests) :
          r.kind = "delete" =>
             /\ hides # <<>>
             /\ hides[1].event.persisted = FALSE
             /\ chatSessionId # None
             /\ r.session = chatSessionId
             /\ CopiesIn(r, requests) = 1
    /\ (hides # <<>> /\ (hides[1].session = None \/ hides[1].event.persisted)) => ~AnyDeletion

\* The session id held is S2, the one given to the second question: the
\* closing tab asks for the deletion of S2 alone.
C28_Witness ==
    /\ hides # <<>>
    /\ hides[1].session = Some("S2")
    /\ chatSessionId = Some("S2")
    /\ requests = SetToBag({DeleteRequest(0, "S2")})


\* A step in which the stream of invocation i ends, in any way.
StreamOver(i) ==
    /\ submits[i].pc = "stream"
    /\ i \in DOMAIN submits'
    /\ submits'[i].pc # "stream"

\* C29: the loading flag tracks the open stream. isLoading is true while a
\* stream started by handleSubmit is open, and when the stream ends, in
\* whatever way, with no other stream open and no conversation being loaded,
\* isLoading is false.
C29_LoadingTracksStream ==
    [][/\ \A i \in DOMAIN submits' : submits'[i].pc = "stream" => isLoading'
       /\ \A i \in DOMAIN submits :
             (/\ StreamOver(i)
              /\ \A k \in DOMAIN submits' : submits'[k].pc # "stream"
              /\ \A j \in DOMAIN loads' : loads'[j].state # "pending")
             => ~isLoading']_vars


\* C30: the displayed title belongs to the current conversation. When the
\* title update of an invocation settles after the user has left the
\* conversation it was requested for, by selecting another one or starting a
\* new chat, the displayed title stays as it is.
C30_TitleOfCurrentConversation ==
    [][\A i \in DOMAIN submits :
          TitleSettles(i) /\ currentConversationId # submits[i].conversationId
             => conversationTitle' = conversationTitle]_vars

====
